---- MODULE Spec2Model ----
(***************************************************************************)
(* A model of the boids simulation engine: the planar vector, the toroidal *)
(* Model (Boid, Obstacle), the Flock steering computation and the          *)
(* BoidSystem tick.                                                        *)
(*                                                                         *)
(* Numbers.  The program computes with floats.  Here every length,         *)
(* velocity and acceleration is an integer (one pixel, one pixel per       *)
(* second, ...), and a result that is not a whole number is rounded toward *)
(* zero.  A distance is the square root of an integer; it is carried as    *)
(* its square (dist2), so comparisons of distances are exact.  The         *)
(* quotient displacement / distance, whose components lie in [-1, 1], is   *)
(* carried in units of 1/Unit.  Obstacle coordinates, which the program    *)
(* rounds, are given to the constructor in half pixels.                    *)
(***************************************************************************)
EXTENDS Integers, Sequences, FiniteSets, TLC

\* ---------------------------------------------------------------- bounds

\* Resolution of a direction vector (displacement / distance): 1/Unit.
Unit == 100
\* The number of passes of the loop of App.run, each with its tick, and of
\* input commands of a run.
MaxTicks == 2
MaxCommands == 1
\* The number of SPACE key presses (resets) of a run.
MaxResets == 1
\* A coefficient is adjusted at most this far from its initial value.
MaxAdjust == 1

\* ------------------------------------------------------- program constants

\* Model.frame = Vector2D(WINDOW_WIDTH, WINDOW_HEIGHT); the tests' frame.
FrameWidth == 40
FrameHeight == 30
\* The configuration of the run: BoidSystem(boid_count, obstacle_count,
\* radius), the radius of the tests.
InitialBoidCount == 2
InitialObstacleCount == 1
Radius == 10
max_velocity == 200
max_acceleration == 50
InitialCoefficient == 10
InitialSeparation == 12

frame == <<FrameWidth, FrameHeight>>
Zero == <<0, 0>>

\* ------------------------------------------------------------- arithmetic

Abs(n) == IF n < 0 THEN -n ELSE n
Sign(n) == IF n < 0 THEN -1 ELSE IF n > 0 THEN 1 ELSE 0
Max(a, b) == IF a >= b THEN a ELSE b

\* a / b for b > 0, rounded toward zero.
Quot(a, b) == Sign(a) * (Abs(a) \div b)

\* The largest k in lo..hi with k * k <= n.
RECURSIVE SqrtSearch(_, _, _)
SqrtSearch(n, lo, hi) ==
    IF lo = hi THEN lo
    ELSE LET mid == (lo + hi + 1) \div 2
         IN  IF mid * mid <= n THEN SqrtSearch(n, mid, hi)
                               ELSE SqrtSearch(n, lo, mid - 1)

\* floor(sqrt(n)); 46340 is the largest number whose square the arithmetic
\* holds.
ISqrt(n) == SqrtSearch(n, 0, 46340)

\* ------------------------------------------------------------- Vector2D

VAdd(v, w) == <<v[1] + w[1], v[2] + w[2]>>
VSub(v, w) == <<v[1] - w[1], v[2] - w[2]>>
VNeg(v) == <<-v[1], -v[2]>>
\* scalar * vector (__rmul__ / __mul__ with a scalar).
VMul(s, v) == <<s * v[1], s * v[2]>>
\* vector % vector (__mod__), Python's modulo: the sign of the divisor.
VMod(v, w) == <<v[1] % w[1], v[2] % w[2]>>

\* operator.sub.
sub(a, b) == a - b

\* Vector2D._apply_operator(sub, other) with a scalar for other: the
\* component of the vector is the operator's first operand.
apply_operator_sub(self, other) == <<sub(self[1], other), sub(self[2], other)>>

\* Vector2D.__sub__(self, other) with a scalar: the value of self - other.
scalar_sub(self, other) == apply_operator_sub(self, other)

\* Vector2D.__rsub__(self, other) with a scalar: the value of other - self.
scalar_rsub(self, other) == apply_operator_sub(self, other)

\* magnitude ** 2.
magnitude2(v) == (v[1] * v[1]) + (v[2] * v[2])

\* __bool__: bool(self.magnitude).
NonZero(v) == magnitude2(v) # 0

\* A vector of the same direction, short enough for m * v to be squared.
RECURSIVE Fit(_, _)
Fit(v, m) ==
    IF m * Max(Abs(v[1]), Abs(v[2])) > 46340
    THEN Fit(<<Quot(v[1], 2), Quot(v[2], 2)>>, m)
    ELSE v

\* resize(magnitude): (magnitude / self.magnitude) * self, for a non-zero
\* vector; each component is the real value rounded toward zero.
resize(v, m) ==
    LET f == Fit(v, m)
        n == magnitude2(f)
    IN  <<Sign(f[1]) * ISqrt((m * m * f[1] * f[1]) \div n),
          Sign(f[2]) * ISqrt((m * m * f[2] * f[2]) \div n)>>

\* vector / distance, the distance given by its square; in units of 1/Unit.
DivByDistance(v, dist2) ==
    <<Sign(v[1]) * ISqrt((Unit * Unit * v[1] * v[1]) \div dist2),
      Sign(v[2]) * ISqrt((Unit * Unit * v[2] * v[2]) \div dist2)>>

\* round(x) of a coordinate given in half pixels: Python rounds a half to
\* the even neighbour.
RoundHalf(x2) ==
    LET q == x2 \div 2
    IN  IF x2 % 2 = 0 THEN q
        ELSE IF q % 2 = 0 THEN q ELSE q + 1

\* ------------------------------------------------------------- utilities

RECURSIVE VSum(_)
VSum(data) == IF data = <<>> THEN Zero ELSE VAdd(Head(data), VSum(Tail(data)))

\* mean(data): sum(data) * (1 / len(data)), for a non-empty sequence.
mean(data) ==
    LET s == VSum(data)
    IN  <<Quot(s[1], Len(data)), Quot(s[2], Len(data))>>

\* ---------------------------------------------------------------- Model

\* Model.__init__ without the modulo.
ModelInitUnwrapped(position) == position

\* Model.__init__: self.position = position % self.frame.
ModelInit(position) == VMod(position, frame)

\* copysign with the sign of delta dropped.
CopySignPositive(extent, delta) == extent

\* copysign(extent, delta).
CopySign(extent, delta) == IF delta < 0 THEN -extent ELSE extent

\* WrapAxis with the wrap taken at half the extent already.
WrapAxisAtHalf(delta, extent) ==
    IF Abs(2 * delta) >= extent THEN delta - CopySign(extent, delta) ELSE delta

\* One axis of displacement: the raw delta, or the delta less the frame
\* extent in the delta's direction when abs(2 * delta) > extent.
WrapAxis(delta, extent) ==
    IF Abs(2 * delta) > extent THEN delta - CopySign(extent, delta) ELSE delta

\* Model.displacement(self, other).
displacement(self, other) ==
    LET delta == VSub(other.position, self.position)
    IN  <<WrapAxis(delta[1], frame[1]), WrapAxis(delta[2], frame[2])>>

\* Model.distance(self, other) ** 2.
distance2(self, other) == magnitude2(displacement(self, other))

\* get_image with the roles of the two models exchanged: the image of the
\* other model nearest to this one.
get_image_of_other(self, other) == VAdd(self.position, displacement(self, other))

\* Model.get_image(self, other).
get_image(self, other) == VAdd(other.position, displacement(other, self))

\* ----------------------------------------------------------------- Boid

\* Boid.__init__.
Boid(id, position, velocity, acceleration) ==
    [id |-> id, position |-> ModelInit(position),
     velocity |-> velocity, acceleration |-> acceleration]

\* The acceleration setter with the limit of the velocity setter.
set_acceleration_velocity_limit(boid, new_acceleration) ==
    [boid EXCEPT !.acceleration =
        IF magnitude2(new_acceleration) > max_velocity * max_velocity
        THEN resize(new_acceleration, max_velocity)
        ELSE new_acceleration]

\* The acceleration setter: max_acceleration * new.unit when the magnitude
\* exceeds max_acceleration.
set_acceleration(boid, new_acceleration) ==
    [boid EXCEPT !.acceleration =
        IF magnitude2(new_acceleration) > max_acceleration * max_acceleration
        THEN resize(new_acceleration, max_acceleration)
        ELSE new_acceleration]

\* The velocity setter without its limit.
set_velocity_unlimited(boid, new_velocity) ==
    [boid EXCEPT !.velocity = new_velocity]

\* The velocity setter: max_velocity * new.unit when the magnitude reaches
\* max_velocity.
set_velocity(boid, new_velocity) ==
    [boid EXCEPT !.velocity =
        IF magnitude2(new_velocity) >= max_velocity * max_velocity
        THEN resize(new_velocity, max_velocity)
        ELSE new_velocity]

\* Boid.update(timestep) with the position advanced by the velocity the
\* boid had before the call.
update_from_old_velocity(boid, t) ==
    LET moved == set_velocity(boid, VAdd(boid.velocity, VMul(t, boid.acceleration)))
    IN  [moved EXCEPT !.position =
            VMod(VAdd(boid.position, VMul(t, boid.velocity)), frame)]

\* Boid.update(timestep).
update(boid, t) ==
    LET moved == set_velocity(boid, VAdd(boid.velocity, VMul(t, boid.acceleration)))
    IN  [moved EXCEPT !.position =
            VMod(VAdd(moved.position, VMul(t, moved.velocity)), frame)]

\* ------------------------------------------------------------- Obstacle

\* Obstacle.__init__, the coordinates given in half pixels: the position
\* modulo the frame, then rounded.
Obstacle(id, position2) ==
    LET wrapped == VMod(position2, VMul(2, frame))
    IN  [id |-> id, position |-> <<RoundHalf(wrapped[1]), RoundHalf(wrapped[2])>>]

\* ---------------------------------------------------------------- Flock

\* The model of a list that has the given identity.
ModelOf(models, id) == models[CHOOSE i \in DOMAIN models : models[i].id = id]

\* get_neighbors with the distance zero within reach.
get_neighbors_from_zero(boid, models, radius) ==
    LET near == {i \in DOMAIN models :
                    /\ 0 <= distance2(boid, models[i])
                    /\ distance2(boid, models[i]) < radius * radius}
    IN  [id \in {models[i].id : i \in near} |->
            distance2(boid, ModelOf(models, id))]

\* get_neighbors with the radius itself within reach.
get_neighbors_inclusive(boid, models, radius) ==
    LET near == {i \in DOMAIN models :
                    /\ 0 < distance2(boid, models[i])
                    /\ distance2(boid, models[i]) <= radius * radius}
    IN  [id \in {models[i].id : i \in near} |->
            distance2(boid, ModelOf(models, id))]

\* Flock.get_neighbors(boid, population, radius): model -> distance, for
\* the models with 0 < distance < radius.
get_neighbors(boid, models, radius) ==
    LET near == {i \in DOMAIN models :
                    /\ 0 < distance2(boid, models[i])
                    /\ distance2(boid, models[i]) < radius * radius}
    IN  [id \in {models[i].id : i \in near} |->
            distance2(boid, ModelOf(models, id))]

\* Flock.__init__: the neighbour mappings are built at construction.
Flock(boid, models, hazards, radius, a, c, f, s) ==
    [boid |-> boid.id,
     radius |-> radius,
     neighbors |-> get_neighbors(boid, models, radius),
     obstacles |-> get_neighbors(boid, hazards, radius),
     alignment_coefficient |-> a,
     cohesion_coefficient |-> c,
     fear_coefficient |-> f,
     separation_coefficient |-> s]

\* The keys of a neighbour mapping, as the models they are now, in the
\* order of the list they were taken from.
Keys(models, mapping) ==
    SelectSeq(models, LAMBDA m : m.id \in DOMAIN mapping)

\* steering_vector without its guard: every desired velocity is resized.
RescalesAlways(desired_velocity) == TRUE

\* The guard of Flock.steering_vector: the desired velocity is resized
\* unless `not desired_velocity`.
Rescales(desired_velocity) == NonZero(desired_velocity)

\* Flock.steering_vector(desired_velocity).
steering_vector(owner, desired_velocity) ==
    IF ~Rescales(desired_velocity) THEN Zero
    ELSE VSub(resize(desired_velocity, max_velocity), owner.velocity)

\* Flock.average_velocity.
average_velocity(flock, models) ==
    LET ns == Keys(models, flock.neighbors)
    IN  mean([i \in DOMAIN ns |-> ns[i].velocity])

\* center_of_mass as the mean of the neighbours' positions as they are.
center_of_mass_unwrapped(flock, models) ==
    LET ns == Keys(models, flock.neighbors)
    IN  mean([i \in DOMAIN ns |-> ns[i].position])

\* Flock.center_of_mass.
center_of_mass(flock, models) ==
    LET ns == Keys(models, flock.neighbors)
        owner == ModelOf(models, flock.boid)
    IN  mean([i \in DOMAIN ns |-> get_image(ns[i], owner)])

\* Flock.alignment_vector.
alignment_vector(flock, models) ==
    steering_vector(ModelOf(models, flock.boid), average_velocity(flock, models))

\* Flock.cohesion_vector.
cohesion_vector(flock, models) ==
    LET owner == ModelOf(models, flock.boid)
    IN  steering_vector(owner, VSub(center_of_mass(flock, models), owner.position))

\* The correction_vector of Flock.fear_vector.
fear_correction(flock, models, hazards) ==
    LET os == Keys(hazards, flock.obstacles)
        owner == ModelOf(models, flock.boid)
    IN  mean([i \in DOMAIN os |->
                DivByDistance(displacement(os[i], owner), flock.obstacles[os[i].id])])

\* Flock.fear_vector.
fear_vector(flock, models, hazards) ==
    steering_vector(ModelOf(models, flock.boid), fear_correction(flock, models, hazards))

\* The correction_vector of Flock.separation_vector.
separation_correction(flock, models) ==
    LET ns == Keys(models, flock.neighbors)
        owner == ModelOf(models, flock.boid)
    IN  mean([i \in DOMAIN ns |->
                DivByDistance(displacement(ns[i], owner), flock.neighbors[ns[i].id])])

\* Flock.separation_vector.
separation_vector(flock, models) ==
    steering_vector(ModelOf(models, flock.boid), separation_correction(flock, models))

\* The three terms added when the flock has neighbours.
NeighborTerms(flock, models) ==
    VAdd(VAdd(VMul(flock.alignment_coefficient, alignment_vector(flock, models)),
              VMul(flock.cohesion_coefficient, cohesion_vector(flock, models))),
         VMul(flock.separation_coefficient, separation_vector(flock, models)))

\* The term added when the flock has obstacles.
FearTerm(flock, models, hazards) ==
    VMul(flock.fear_coefficient, fear_vector(flock, models, hazards))

\* The impulse with the second conditional nested in the first.
impulse_nested(flock, models, hazards) ==
    IF DOMAIN flock.neighbors # {}
    THEN VAdd(NeighborTerms(flock, models),
              IF DOMAIN flock.obstacles # {} THEN FearTerm(flock, models, hazards)
                                             ELSE Zero)
    ELSE Zero

\* The impulse of Flock.apply_impulse, before the setter limits it.
impulse(flock, models, hazards) ==
    VAdd(IF DOMAIN flock.neighbors # {} THEN NeighborTerms(flock, models) ELSE Zero,
         IF DOMAIN flock.obstacles # {} THEN FearTerm(flock, models, hazards) ELSE Zero)

\* Vector2D.resize raises ZeroDivisionError: the magnitude is zero.
resize_raises(v) == magnitude2(v) = 0

\* utilities.mean raises ZeroDivisionError: 1 / len(data) of no data.
mean_raises(data) == Len(data) = 0

\* Flock.steering_vector(desired_velocity) raises: it resizes a vector that
\* resize rejects.
steering_vector_raises(desired_velocity) ==
    Rescales(desired_velocity) /\ resize_raises(desired_velocity)

\* Flock.apply_impulse raises: one of the means or of the steering vectors
\* it asks for does, in the order it asks for them.
apply_impulse_raises(flock, models, hazards) ==
    \/ /\ DOMAIN flock.neighbors # {}
       /\ \/ mean_raises(Keys(models, flock.neighbors))
          \/ steering_vector_raises(average_velocity(flock, models))
          \/ steering_vector_raises(
                 VSub(center_of_mass(flock, models), ModelOf(models, flock.boid).position))
          \/ steering_vector_raises(separation_correction(flock, models))
    \/ /\ DOMAIN flock.obstacles # {}
       /\ \/ mean_raises(Keys(hazards, flock.obstacles))
          \/ steering_vector_raises(fear_correction(flock, models, hazards))

\* The list with the model of the given identity replaced.
Replace(models, id, new) ==
    [i \in DOMAIN models |-> IF models[i].id = id THEN new ELSE models[i]]

\* Flock.apply_impulse: self.boid.acceleration = impulse.
apply_impulse(flock, models, hazards) ==
    Replace(models, flock.boid,
            set_acceleration(ModelOf(models, flock.boid),
                             impulse(flock, models, hazards)))

\* flock.boid.update(timestep), in the loop of BoidSystem.update.
integrate(flock, models, t) ==
    Replace(models, flock.boid, update(ModelOf(models, flock.boid), t))

\* The list of Flocks with the first boid taken at every position.
BuildFlocksOfFirst(models, hazards, radius, a, c, f, s) ==
    [i \in DOMAIN models |-> Flock(models[1], models, hazards, radius, a, c, f, s)]

\* The list of Flocks in the reverse of the population's order.
BuildFlocksReversed(models, hazards, radius, a, c, f, s) ==
    [i \in DOMAIN models |->
        Flock(models[Len(models) + 1 - i], models, hazards, radius, a, c, f, s)]

\* The list of Flocks BoidSystem.update builds, one per boid of the
\* population, in its order.
BuildFlocks(models, hazards, radius, a, c, f, s) ==
    [i \in DOMAIN models |-> Flock(models[i], models, hazards, radius, a, c, f, s)]

\* ----------------------------------------------------------- BoidSystem

VARIABLES
    population,     \* self.population: the list of Boids
    obstacles,      \* self.obstacles: the list of Obstacles
    flocks,         \* self.flocks: the Flocks of the last tick
    alignment,      \* the four coefficients
    cohesion,
    fear,
    separation,
    nextId,         \* the identity the next constructed object gets
    pc,             \* where App.run stands: "render" before self.render(),
                    \* "idle" in self.dispatch_events(), and in
                    \* BoidSystem.update "impulse" before
                    \* flock.apply_impulse() and "integrate" before
                    \* flock.boid.update(timestep); "raised" once an
                    \* exception has ended the run
    idx,            \* the position of the loop over self.flocks
    timestep,       \* the timestep of the tick under way
    ticks,          \* the number of ticks begun
    commands,       \* the number of input commands handled
    resets,         \* the number of SPACE key presses handled
    pre,            \* the population as it was when the Flocks were built
    impulsed,       \* the boids apply_impulse has acted on in this tick
    integrated,     \* boid -> the number of Boid.update calls in this tick
    probe           \* GeometrySpec: one application of an operation of Model
                    \* or of Flock.get_neighbors, with its operands and result

vars == <<population, obstacles, flocks, alignment, cohesion, fear, separation,
          nextId, pc, idx, timestep, ticks, commands, resets, pre, impulsed,
          integrated, probe>>

\* max_velocity * Vector2D.random(): velocities shorter than max_velocity.
RandomVelocities == {<<3, 4>>, <<0, 199>>}

\* Vector2D.random() * frame, in half pixels: components within the frame's
\* extents, of either sign.
RandomPositions == {<<40, 18>>, <<-1, 20>>}

\* The coordinates of a mouse press.
MousePositions == {<<22, 15>>, <<-1, 45>>}

\* The coordinates given to add_obstacle, in half pixels.
ObstaclePositions == {<<40, 42>>, <<77, -1>>}

\* The timesteps of a tick, in seconds.
Timesteps == {1, 2}

\* Boid.random(): at the centre of the frame (frame / 2; the extents are
\* even), with a random velocity.  The random acceleration, shorter than
\* 1, is zero on the integer grid.
RandomBoid(id, velocity) ==
    Boid(id, <<FrameWidth \div 2, FrameHeight \div 2>>, velocity, Zero)

\* BoidSystem.new() with as many obstacles as boids.
new_boid_count_twice(first, vs, ps) ==
    [boids |-> [i \in 1..InitialBoidCount |-> RandomBoid(first + i - 1, vs[i])],
     obstacles |-> [i \in 1..InitialBoidCount |->
                        Obstacle(first + InitialBoidCount + i - 1, ps[1])]]

\* BoidSystem.new(): the boids, then the obstacles, from the random draws
\* vs and ps.
new(first, vs, ps) ==
    [boids |-> [i \in 1..InitialBoidCount |-> RandomBoid(first + i - 1, vs[i])],
     obstacles |-> [i \in 1..InitialObstacleCount |->
                        Obstacle(first + InitialBoidCount + i - 1, ps[i])]]

Draws == [1..InitialBoidCount -> RandomVelocities]
        \X [1..InitialObstacleCount -> RandomPositions]

\* The random draws of a reset: every boid of the velocity (3, 4).
ResetDraws == {d \in Draws : \A i \in DOMAIN d[1] : d[1][i] = <<3, 4>>}

\* No operation is under study.
NoProbe == [op |-> "none"]

\* BoidSystem.__init__.
Init ==
    \E d \in Draws :
        /\ population = new(1, d[1], d[2]).boids
        /\ obstacles = new(1, d[1], d[2]).obstacles
        /\ flocks = <<>>
        /\ alignment = InitialCoefficient
        /\ cohesion = InitialCoefficient
        /\ fear = InitialCoefficient
        /\ separation = InitialSeparation
        /\ nextId = 1 + InitialBoidCount + InitialObstacleCount
        /\ pc = "render"
        /\ idx = 0
        /\ timestep = 0
        /\ ticks = 0
        /\ commands = 0
        /\ resets = 0
        /\ pre = <<>>
        /\ impulsed = {}
        /\ integrated = <<>>
        /\ probe = NoProbe

coefficients == <<alignment, cohesion, fear, separation>>
tick == <<pc, idx, timestep, ticks, pre, impulsed, integrated, probe>>

\* App.run, self.render(): the frame is drawn from the population, the
\* obstacles and the flocks, which it leaves as they are.
Render ==
    /\ pc = "render"
    /\ ticks < MaxTicks
    /\ pc' = "idle"
    /\ UNCHANGED <<population, obstacles, flocks, alignment, cohesion, fear,
                   separation, nextId, idx, timestep, ticks, commands, resets,
                   pre, impulsed, integrated, probe>>

\* App.run, self.dispatch_events(): an input command is handled between
\* the rendering and the tick.
Command ==
    /\ pc = "idle"
    /\ commands < MaxCommands
    /\ commands' = commands + 1
    /\ resets' = resets

\* BoidSystem.add_boid(x, y).
add_boid(x, y) ==
    /\ Command
    /\ population' = Append(population, Boid(nextId, <<x, y>>, Zero, Zero))
    /\ nextId' = nextId + 1
    /\ UNCHANGED <<obstacles, flocks, coefficients, tick>>

\* BoidSystem.add_obstacle(x, y), the coordinates in half pixels.
add_obstacle(x2, y2) ==
    /\ Command
    /\ obstacles' = Append(obstacles, Obstacle(nextId, <<x2, y2>>))
    /\ nextId' = nextId + 1
    /\ UNCHANGED <<population, flocks, coefficients, tick>>

\* App.on_key_press, SPACE: population, obstacles = self.system.new().
Reset(d) ==
    /\ pc = "idle"
    /\ resets < MaxResets
    /\ resets' = resets + 1
    /\ population' = new(nextId, d[1], d[2]).boids
    /\ obstacles' = new(nextId, d[1], d[2]).obstacles
    /\ nextId' = nextId + InitialBoidCount + InitialObstacleCount
    /\ UNCHANGED <<flocks, coefficients, commands, tick>>

\* A coefficient stays within MaxAdjust of c0.
Within(c, c0) == Abs(c - c0) <= MaxAdjust

\* App.on_key_press, A / Z.
AdjustAlignment(delta) ==
    /\ Command
    /\ Within(alignment + delta, InitialCoefficient)
    /\ alignment' = alignment + delta
    /\ UNCHANGED <<population, obstacles, flocks, cohesion, fear, separation,
                   nextId, tick>>

\* App.on_key_press, D / C.
AdjustCohesion(delta) ==
    /\ Command
    /\ Within(cohesion + delta, InitialCoefficient)
    /\ cohesion' = cohesion + delta
    /\ UNCHANGED <<population, obstacles, flocks, alignment, fear, separation,
                   nextId, tick>>

\* App.on_key_press, F / V.
AdjustFear(delta) ==
    /\ Command
    /\ Within(fear + delta, InitialCoefficient)
    /\ fear' = fear + delta
    /\ UNCHANGED <<population, obstacles, flocks, alignment, cohesion, separation,
                   nextId, tick>>

\* App.on_key_press, S / X.
AdjustSeparation(delta) ==
    /\ Command
    /\ Within(separation + delta, InitialSeparation)
    /\ separation' = separation + delta
    /\ UNCHANGED <<population, obstacles, flocks, alignment, cohesion, fear,
                   nextId, tick>>

\* BoidSystem.update(timestep), up to its loop: the Flocks are built.
UpdateBegin(t) ==
    /\ pc = "idle"
    /\ ticks < MaxTicks
    /\ flocks' = BuildFlocks(population, obstacles, Radius,
                             alignment, cohesion, fear, separation)
    /\ pc' = IF population = <<>> THEN "render" ELSE "impulse"
    /\ idx' = 1
    /\ timestep' = t
    /\ ticks' = ticks + 1
    /\ pre' = population
    /\ impulsed' = {}
    /\ integrated' = [id \in {population[i].id : i \in DOMAIN population} |-> 0]
    /\ UNCHANGED <<population, obstacles, coefficients, nextId, commands, resets,
                   probe>>

\* The loop of BoidSystem.update: flock.apply_impulse(), which assigns the
\* acceleration, or raises and ends the run.
ApplyImpulse ==
    /\ pc = "impulse"
    /\ IF apply_impulse_raises(flocks[idx], population, obstacles)
       THEN /\ pc' = "raised"
            /\ UNCHANGED <<population, impulsed>>
       ELSE /\ population' = apply_impulse(flocks[idx], population, obstacles)
            /\ impulsed' = impulsed \cup {flocks[idx].boid}
            /\ pc' = "integrate"
    /\ UNCHANGED <<obstacles, flocks, coefficients, nextId, idx, timestep, ticks,
                   commands, resets, pre, integrated, probe>>

\* The loop of BoidSystem.update: flock.boid.update(timestep), and on to
\* the next flock or out of the loop.
BoidUpdate ==
    /\ pc = "integrate"
    /\ population' = integrate(flocks[idx], population, timestep)
    /\ integrated' = [integrated EXCEPT ![flocks[idx].boid] = @ + 1]
    /\ pc' = IF idx = Len(flocks) THEN "render" ELSE "impulse"
    /\ idx' = idx + 1
    /\ UNCHANGED <<obstacles, flocks, coefficients, nextId, timestep, ticks,
                   commands, resets, pre, impulsed, probe>>

Next ==
    \/ Render
    \/ \E t \in Timesteps : UpdateBegin(t)
    \/ ApplyImpulse
    \/ BoidUpdate
    \/ \E p \in MousePositions : add_boid(p[1], p[2])
    \/ \E p \in ObstaclePositions : add_obstacle(p[1], p[2])
    \/ \E d \in ResetDraws : Reset(d)
    \/ \E delta \in {-1, 1} : AdjustAlignment(delta)
    \/ \E delta \in {-1, 1} : AdjustCohesion(delta)
    \/ \E delta \in {-1, 1} : AdjustFear(delta)
    \/ \E delta \in {-1, 1} : AdjustSeparation(delta)

Spec == Init /\ [][Next]_vars

\* BoidSystem.update(timestep) as a whole: the loop over the flocks from
\* position i on.
RECURSIVE RunFlocks(_, _, _, _, _)
RunFlocks(fs, i, models, hazards, t) ==
    IF i > Len(fs) THEN models
    ELSE RunFlocks(fs, i + 1,
                   integrate(fs[i], apply_impulse(fs[i], models, hazards), t),
                   hazards, t)

\* The population BoidSystem.update(timestep) leaves.
system_update(models, hazards, radius, a, c, f, s, t) ==
    RunFlocks(BuildFlocks(models, hazards, radius, a, c, f, s), 1, models, hazards, t)

\* ---------------------------------------------------- GeometrySpec

\* The coordinates the models of GeometrySpec are placed at: on both axes
\* pairs at less than half the extent, at exactly half of it and at more,
\* and pairs at a distance of exactly 5 and 10 ((3, 4) and (6, 8) apart).
GeometryX == {0, 5, 8, 11, 20, 25, 39}
GeometryY == {0, 5, 9, 13, 15, 29}
GeometryPositions == GeometryX \X GeometryY
\* The third model of the list get_neighbors is given.
ThirdPositions == {<<5, 5>>, <<39, 29>>, <<15, 5>>}
\* The radii given to get_neighbors.
GeometryRadii == {5, 10}

\* The boids Boid.update is applied to: the positions and velocities of
\* test_update_position and a corner of the frame, velocities close to
\* max_velocity, accelerations up to max_acceleration.
UpdatePositions == {<<5, 10>>, <<39, 29>>}
UpdateVelocities == {<<10, 0>>, <<-10, 0>>, <<0, -15>>, <<0, 199>>, <<119, 160>>}
UpdateAccelerations == {<<0, 0>>, <<0, 50>>, <<30, -40>>, <<-3, 4>>}

\* The scalars subtracted from, and from which are subtracted, the vectors
\* of UpdateVelocities.
Scalars == {-3, 0, 1, 7}

\* The state of the system while a single operation is studied.
SystemAtRest ==
    /\ population = <<>>
    /\ obstacles = <<>>
    /\ flocks = <<>>
    /\ alignment = InitialCoefficient
    /\ cohesion = InitialCoefficient
    /\ fear = InitialCoefficient
    /\ separation = InitialSeparation
    /\ nextId = 1
    /\ pc = "idle"
    /\ idx = 0
    /\ timestep = 0
    /\ ticks = 0
    /\ commands = 0
    /\ resets = 0
    /\ pre = <<>>
    /\ impulsed = {}
    /\ integrated = <<>>

system == <<population, obstacles, flocks, alignment, cohesion, fear, separation,
            nextId, pc, idx, timestep, ticks, commands, resets, pre, impulsed,
            integrated>>

\* The operands: three boids at rest, the first the one asked, and a radius;
\* or a boid in motion and a timestep; or a vector and a scalar.
GeometryInit ==
    /\ SystemAtRest
    /\ \/ \E a \in GeometryPositions, b \in GeometryPositions, c \in ThirdPositions,
             r \in GeometryRadii :
            probe = [op |-> "operands",
                     models |-> <<Boid(1, a, Zero, Zero), Boid(2, b, Zero, Zero),
                                  Boid(3, c, Zero, Zero)>>,
                     radius |-> r]
       \/ \E p \in UpdatePositions, v \in UpdateVelocities,
             a \in UpdateAccelerations, t \in Timesteps :
            probe = [op |-> "boid", boid |-> Boid(1, p, v, a), timestep |-> t]
       \/ \E v \in UpdateVelocities, s \in Scalars :
            probe = [op |-> "scalar", vector |-> v, scalar |-> s]

\* models[1].displacement(models[2]), and the displacement back.
ProbeDisplacement ==
    /\ probe.op = "operands"
    /\ probe' = [op |-> "displacement",
                 models |-> probe.models,
                 radius |-> probe.radius,
                 there |-> displacement(probe.models[1], probe.models[2]),
                 back |-> displacement(probe.models[2], probe.models[1])]
    /\ UNCHANGED system

\* Flock.get_neighbors(models[1], models, radius).
ProbeNeighbors ==
    /\ probe.op = "operands"
    /\ probe' = [op |-> "get_neighbors",
                 models |-> probe.models,
                 radius |-> probe.radius,
                 neighbors |-> get_neighbors(probe.models[1], probe.models, probe.radius)]
    /\ UNCHANGED system

\* models[1].get_image(models[2]).
ProbeImage ==
    /\ probe.op = "operands"
    /\ probe' = [op |-> "get_image",
                 models |-> probe.models,
                 radius |-> probe.radius,
                 image |-> get_image(probe.models[1], probe.models[2])]
    /\ UNCHANGED system

\* The Flock of models[1] in the population models, without obstacles.
ProbeFlock ==
    Flock(probe.models[1], probe.models, <<>>, probe.radius,
          InitialCoefficient, InitialCoefficient, InitialCoefficient, InitialSeparation)

\* Flock(models[1], models, ...).center_of_mass, which apply_impulse asks
\* for when the flock has neighbours.
ProbeCenterOfMass ==
    /\ probe.op = "operands"
    /\ DOMAIN ProbeFlock.neighbors # {}
    /\ probe' = [op |-> "center_of_mass",
                 models |-> probe.models,
                 radius |-> probe.radius,
                 flock |-> ProbeFlock,
                 center |-> center_of_mass(ProbeFlock, probe.models)]
    /\ UNCHANGED system

\* The Flocks BoidSystem.update builds for the population models, without
\* obstacles.
ProbeBuildFlocks ==
    /\ probe.op = "operands"
    /\ probe' = [op |-> "flocks",
                 models |-> probe.models,
                 radius |-> probe.radius,
                 flocks |-> BuildFlocks(probe.models, <<>>, probe.radius,
                                        InitialCoefficient, InitialCoefficient,
                                        InitialCoefficient, InitialSeparation)]
    /\ UNCHANGED system

\* boid.update(timestep).
ProbeUpdate ==
    /\ probe.op = "boid"
    /\ probe' = [op |-> "update",
                 before |-> probe.boid,
                 timestep |-> probe.timestep,
                 after |-> update(probe.boid, probe.timestep)]
    /\ UNCHANGED system

\* vector - scalar and scalar - vector.
ProbeSubtract ==
    /\ probe.op = "scalar"
    /\ probe' = [op |-> "subtract",
                 vector |-> probe.vector,
                 scalar |-> probe.scalar,
                 vector_minus_scalar |-> scalar_sub(probe.vector, probe.scalar),
                 scalar_minus_vector |-> scalar_rsub(probe.vector, probe.scalar)]
    /\ UNCHANGED system

GeometryNext ==
    \/ ProbeDisplacement
    \/ ProbeNeighbors
    \/ ProbeImage
    \/ ProbeCenterOfMass
    \/ ProbeBuildFlocks
    \/ ProbeUpdate
    \/ ProbeSubtract

GeometrySpec == GeometryInit /\ [][GeometryNext]_vars

\* ----------------------------------------------------------------- claims

Ids(models) == {models[i].id : i \in DOMAIN models}

\* The boid the loop of BoidSystem.update stands at.
Owner == ModelOf(population, flocks[idx].boid)

\* C1: the acceleration apply_impulse assigns to a boid is the one computed
\* from the population as it was when the tick's Flocks were built: it
\* depends on no position or velocity that Boid.update changed in this tick.
C1_ImpulseFromSnapshot ==
    pc = "integrate" =>
        Owner.acceleration =
            ModelOf(apply_impulse(flocks[idx], pre, obstacles), flocks[idx].boid).acceleration

\* C2: the tick leaves every boid with the same position, velocity and
\* acceleration whatever the order of the population list.
C2_OrderIndependent ==
    (pc = "impulse" /\ idx = 1) =>
        \A p \in Permutations(DOMAIN population) :
            LET permuted == [i \in DOMAIN population |-> population[p[i]]]
                one == system_update(population, obstacles, Radius,
                                     alignment, cohesion, fear, separation, timestep)
                other == system_update(permuted, obstacles, Radius,
                                       alignment, cohesion, fear, separation, timestep)
            IN  \A id \in Ids(population) : ModelOf(one, id) = ModelOf(other, id)

\* C3: after every BoidSystem.update, every boid of the population has a
\* velocity no longer than max_velocity and an acceleration no longer than
\* max_acceleration.
C3_Limits ==
    (pc \in {"render", "idle"} /\ ticks >= 1) =>
        \A i \in DOMAIN population :
            /\ magnitude2(population[i].velocity) <= max_velocity * max_velocity
            /\ magnitude2(population[i].acceleration) <= max_acceleration * max_acceleration

\* A tick has ended with a boid whose velocity the setter cut to
\* max_velocity and whose acceleration a flock set.
C3_Witness ==
    /\ pc = "idle"
    /\ ticks >= 1
    /\ \E i \in DOMAIN population :
        /\ magnitude2(population[i].velocity) = max_velocity * max_velocity
        /\ population[i].acceleration # Zero

InFrame(position) ==
    /\ 0 <= position[1] /\ position[1] < FrameWidth
    /\ 0 <= position[2] /\ position[2] < FrameHeight

\* C4: the position of every boid and of every obstacle lies in
\* [0, width) x [0, height), in every state.
C4_PositionsInFrame ==
    /\ \A i \in DOMAIN population : InFrame(population[i].position)
    /\ \A i \in DOMAIN obstacles : InFrame(obstacles[i].position)

\* A vector as the acceleration setter leaves it.
Limited(v) ==
    IF magnitude2(v) > max_acceleration * max_acceleration
    THEN resize(v, max_acceleration)
    ELSE v

\* C8: apply_impulse composes the impulse from two independent
\* conditionals: with no neighbours and no obstacles the acceleration is set
\* to zero; with neighbours and no obstacles the fear term adds nothing;
\* with obstacles and no neighbours the alignment, cohesion and separation
\* terms add nothing.
C8_IndependentConditionals ==
    pc = "integrate" =>
        LET flock == flocks[idx]
            alone == DOMAIN flock.neighbors = {}
            clear == DOMAIN flock.obstacles = {}
        IN  /\ (alone /\ clear) => Owner.acceleration = Zero
            /\ (~alone /\ clear) =>
                   Owner.acceleration = Limited(NeighborTerms(flock, population))
            /\ (alone /\ ~clear) =>
                   Owner.acceleration = Limited(FearTerm(flock, population, obstacles))

\* A boid that had an acceleration and has neither neighbours nor obstacles
\* in this tick: its acceleration is zero now.
C8_Witness ==
    /\ pc = "integrate"
    /\ DOMAIN flocks[idx].neighbors = {}
    /\ DOMAIN flocks[idx].obstacles = {}
    /\ ModelOf(pre, flocks[idx].boid).acceleration # Zero
    /\ Owner.acceleration = Zero

\* The flock the loop stands at has one obstacle and no neighbour.
OneObstacleOnly ==
    /\ pc = "integrate"
    /\ DOMAIN flocks[idx].neighbors = {}
    /\ Cardinality(DOMAIN flocks[idx].obstacles) = 1

\* fear_coefficient x fear_vector for the single obstacle of the flock: the
\* direction from the obstacle to the boid, of length 1, resized to
\* max_velocity, less the boid's velocity.
SingleFear ==
    LET flock == flocks[idx]
        obstacle == ModelOf(obstacles, CHOOSE id \in DOMAIN flock.obstacles : TRUE)
        direction == DivByDistance(displacement(obstacle, Owner),
                                   distance2(obstacle, Owner))
    IN  VMul(flock.fear_coefficient,
             VSub(resize(direction, max_velocity), Owner.velocity))

\* C9, as claimed: with one obstacle and no boid within the radius, the
\* acceleration after apply_impulse is exactly fear_coefficient x fear_vector.
C9_ExactlyFear ==
    OneObstacleOnly => Owner.acceleration = SingleFear

\* C9, amended: the acceleration is fear_coefficient x fear_vector as the
\* acceleration setter limits it: resized to max_acceleration when longer.
C9_LimitedFear ==
    OneObstacleOnly =>
        Owner.acceleration =
            IF magnitude2(SingleFear) > max_acceleration * max_acceleration
            THEN resize(SingleFear, max_acceleration)
            ELSE SingleFear

\* The fear impulse is longer than max_acceleration and was cut.
C9_Witness ==
    /\ OneObstacleOnly
    /\ magnitude2(SingleFear) > max_acceleration * max_acceleration
    /\ Owner.acceleration = resize(SingleFear, max_acceleration)
    /\ Owner.acceleration # SingleFear

\* C10: in every tick Boid.update is applied to each boid of the population
\* exactly once, and to no boid before apply_impulse assigned its
\* acceleration in this tick.
C10_IntegratedOnceAfterImpulse ==
    /\ DOMAIN integrated = Ids(pre)
    /\ \A id \in DOMAIN integrated :
        /\ integrated[id] <= 1
        /\ integrated[id] = 1 => id \in impulsed
    /\ (pc \in {"render", "idle"} /\ ticks >= 1) =>
           \A id \in Ids(pre) : integrated[id] = 1

\* A tick over three boids has ended.
C10_Witness ==
    /\ pc = "render"
    /\ ticks >= 1
    /\ Len(pre) = 3
    /\ impulsed = Ids(pre)
    /\ \A id \in Ids(pre) : integrated[id] = 1

\* One axis of C5: the displacement d for the raw delta, on an axis of the
\* given extent.
MinimalOnAxis(d, delta, extent) ==
    /\ (d - delta) % extent = 0
    /\ 2 * Abs(d) <= extent
    /\ (2 * Abs(delta) <= extent) => d = delta
    /\ (2 * Abs(delta) > extent) => d = delta - (Sign(delta) * extent)

\* C5: for models in the frame, displacement is on each axis congruent to
\* the raw delta modulo the extent and no longer than half the extent (so
\* the distance is at most half the frame's diagonal); the raw delta is kept
\* exactly when it does not exceed half the extent, else the extent is taken
\* off in the delta's direction.
C5_DisplacementMinimal ==
    probe.op = "displacement" =>
        LET a == probe.models[1]
            b == probe.models[2]
            delta == VSub(b.position, a.position)
        IN  (InFrame(a.position) /\ InFrame(b.position)) =>
                /\ MinimalOnAxis(probe.there[1], delta[1], FrameWidth)
                /\ MinimalOnAxis(probe.there[2], delta[2], FrameHeight)
                /\ 4 * distance2(a, b) <= (FrameWidth * FrameWidth) + (FrameHeight * FrameHeight)

\* A displacement across the wrap on one axis, of exactly half the extent
\* on the other.
C5_Witness ==
    /\ probe.op = "displacement"
    /\ LET delta == VSub(probe.models[2].position, probe.models[1].position)
       IN  /\ 2 * Abs(delta[1]) > FrameWidth
           /\ 2 * Abs(delta[2]) = FrameHeight
           /\ probe.there = <<delta[1] - (Sign(delta[1]) * FrameWidth), delta[2]>>

\* C6: for models in the frame, a.displacement(b) == -(b.displacement(a)),
\* and so a.distance(b) == b.distance(a).
C6_DisplacementAntisymmetric ==
    probe.op = "displacement" =>
        /\ probe.there = VNeg(probe.back)
        /\ distance2(probe.models[1], probe.models[2])
               = distance2(probe.models[2], probe.models[1])

\* A pair whose raw delta is exactly half the extent on one axis and across
\* the wrap on the other.
C6_Witness ==
    /\ probe.op = "displacement"
    /\ LET delta == VSub(probe.models[2].position, probe.models[1].position)
       IN  /\ 2 * Abs(delta[1]) = FrameWidth
           /\ 2 * Abs(delta[2]) > FrameHeight
    /\ probe.there = VNeg(probe.back)
    /\ probe.there # Zero

\* C7: get_neighbors(boid, population, radius) maps exactly the models at a
\* distance d with 0 < d < radius, each to that distance: not the boid
\* itself, not a model at exactly the radius.
C7_NeighborsExact ==
    probe.op = "get_neighbors" =>
        LET boid == probe.models[1]
            found == probe.neighbors
        IN  /\ DOMAIN found \subseteq Ids(probe.models)
            /\ boid.id \notin DOMAIN found
            /\ \A i \in DOMAIN probe.models :
                LET d2 == magnitude2(displacement(boid, probe.models[i]))
                    id == probe.models[i].id
                IN  /\ (d2 = probe.radius * probe.radius) => id \notin DOMAIN found
                    /\ (0 < d2 /\ d2 < probe.radius * probe.radius) =>
                           (id \in DOMAIN found /\ found[id] = d2)
                    /\ (d2 = 0 \/ d2 > probe.radius * probe.radius) =>
                           id \notin DOMAIN found

\* One model at exactly the radius, left out, and one within it, kept.
C7_Witness ==
    /\ probe.op = "get_neighbors"
    /\ magnitude2(displacement(probe.models[1], probe.models[2]))
           = probe.radius * probe.radius
    /\ 0 < magnitude2(displacement(probe.models[1], probe.models[3]))
    /\ DOMAIN probe.neighbors = {3}

\* C11: Boid.update(timestep) sets the velocity to the old velocity plus
\* timestep times the acceleration, cut to max_velocity by the setter, then
\* the position to the old position plus timestep times that new velocity,
\* modulo the frame; the acceleration stays as it was.
C11_UpdateFormula ==
    probe.op = "update" =>
        LET b == probe.before
            t == probe.timestep
            raw == <<b.velocity[1] + t * b.acceleration[1],
                     b.velocity[2] + t * b.acceleration[2]>>
            v == IF raw[1] * raw[1] + raw[2] * raw[2] >= max_velocity * max_velocity
                 THEN resize(raw, max_velocity)
                 ELSE raw
        IN  /\ probe.after.velocity = v
            /\ probe.after.position = <<(b.position[1] + t * v[1]) % FrameWidth,
                                        (b.position[2] + t * v[2]) % FrameHeight>>
            /\ probe.after.acceleration = b.acceleration
            /\ probe.after.id = b.id

\* The boid of test_update_position at (5, 10) with velocity (-10, 0) has
\* moved for one second, to (35, 10).
C11_Witness ==
    /\ probe.op = "update"
    /\ probe.before.position = <<5, 10>>
    /\ probe.before.velocity = <<-10, 0>>
    /\ probe.before.acceleration = Zero
    /\ probe.timestep = 1
    /\ probe.after.position = <<35, 10>>

\* A boid has moved whose velocity the setter cut, by the velocity as cut.
C11_WitnessLimited ==
    /\ probe.op = "update"
    /\ probe.before.velocity = <<0, 199>>
    /\ probe.before.acceleration = <<0, 50>>
    /\ probe.timestep = 1
    /\ probe.after.velocity = <<0, 200>>
    /\ probe.after.position = <<5, 0>>

\* The position image is a periodic image of the position of, and on either
\* axis at most half the extent away from the position near.
ImageOfNear(image, of, near) ==
    /\ (image[1] - of[1]) % FrameWidth = 0
    /\ (image[2] - of[2]) % FrameHeight = 0
    /\ 2 * Abs(image[1] - near[1]) <= FrameWidth
    /\ 2 * Abs(image[2] - near[2]) <= FrameHeight

\* C12 as claimed: a.get_image(b) is the periodic image of the other model
\* b nearest to a: congruent to b.position modulo the frame, and at most
\* half the extent from a.position on either axis.
C12_ImageOfOther ==
    probe.op = "get_image" =>
        ImageOfNear(probe.image, probe.models[2].position, probe.models[1].position)

\* C12: a.get_image(b) is the periodic image of the model a itself nearest
\* to b: congruent to a.position modulo the frame, and at most half the
\* extent from b.position on either axis.
C12_ImageOfSelf ==
    probe.op = "get_image" =>
        ImageOfNear(probe.image, probe.models[1].position, probe.models[2].position)

\* The image of the model at (5, 5) asked for the model at (39, 29), across
\* both edges of the frame: (45, 35).
C12_Witness ==
    /\ probe.op = "get_image"
    /\ probe.models[1].position = <<5, 5>>
    /\ probe.models[2].position = <<39, 29>>
    /\ probe.image = <<45, 35>>

\* One step of the run that is no reset, for C13.
C13_Step ==
    resets' = resets =>
        /\ Len(population') \in {Len(population), Len(population) + 1}
        /\ Len(obstacles') \in {Len(obstacles), Len(obstacles) + 1}
        /\ Len(population') + Len(obstacles') <= Len(population) + Len(obstacles) + 1
        /\ \A i \in DOMAIN population : population'[i].id = population[i].id
        /\ SubSeq(obstacles', 1, Len(obstacles)) = obstacles
        /\ commands' # commands =>
               SubSeq(population', 1, Len(population)) = population
        /\ commands' = commands =>
               /\ Len(population') = Len(population)
               /\ Len(obstacles') = Len(obstacles)
        /\ Len(population') > Len(population) =>
               \E p \in MousePositions :
                   population'[Len(population')] =
                       [id |-> nextId,
                        position |-> <<p[1] % FrameWidth, p[2] % FrameHeight>>,
                        velocity |-> Zero,
                        acceleration |-> Zero]

\* C13: add_boid(x, y) appends exactly one boid at (x mod width, y mod
\* height) with zero velocity and acceleration, add_obstacle appends exactly
\* one obstacle, neither touches, reorders or removes a boid or obstacle
\* there was, and BoidSystem.update removes no boid: between resets the two
\* lists only grow.
C13_ListsOnlyGrow == [][C13_Step]_vars

\* The press at (-1, 45) in the second pass of the loop has added a boid
\* at (39, 15), at rest, behind the boids of the first tick.
C13_Witness ==
    /\ pc = "idle"
    /\ ticks = 1
    /\ resets = 0
    /\ Len(population) = InitialBoidCount + 1
    /\ Ids(pre) = {population[i].id : i \in 1..InitialBoidCount}
    /\ population[Len(population)].position = <<39, 15>>
    /\ population[Len(population)].velocity = Zero
    /\ population[Len(population)].acceleration = Zero

\* A tick has run over the boids after an obstacle was added: all are
\* still there.
C13_WitnessObstacle ==
    /\ pc = "render"
    /\ ticks = MaxTicks
    /\ resets = 0
    /\ Len(obstacles) = InitialObstacleCount + 1
    /\ Len(population) = InitialBoidCount

\* One step of the run that is a reset, for C14.
C14_Step ==
    resets' = resets + 1 =>
        /\ Len(population') = InitialBoidCount
        /\ Len(obstacles') = InitialObstacleCount
        /\ Cardinality(Ids(population') \cup Ids(obstacles')) =
               InitialBoidCount + InitialObstacleCount
        /\ (Ids(population') \cup Ids(obstacles')) \cap
               (Ids(population) \cup Ids(obstacles) \cup Ids(pre)) = {}
        /\ \A id \in Ids(population') \cup Ids(obstacles') : id >= nextId
        /\ UNCHANGED <<flocks, alignment, cohesion, fear, separation>>

\* C14: the lists of BoidSystem.new() are newly made, of exactly the
\* initial count of boids and the initial count of obstacles however many
\* were added since, and a reset changes nothing of the system but the two
\* lists the caller assigns: the flocks and the four coefficients stay.
C14_NewIsFresh == [][C14_Step]_vars

\* A boid was added, a tick ran over the three boids, and the reset of the
\* next pass has left the initial counts; the flocks are still those of
\* the three boids.
C14_Witness ==
    /\ pc = "idle"
    /\ resets = 1
    /\ commands = 1
    /\ ticks = 1
    /\ Len(flocks) = InitialBoidCount + 1
    /\ Len(population) = InitialBoidCount
    /\ Len(obstacles) = InitialObstacleCount
    /\ Ids(population) \cap Ids(pre) = {}

\* C15: when apply_impulse divides the displacement from a neighbour, or
\* from an obstacle, to the owner by the distance of the mapping, that
\* distance is the magnitude of the displacement as it is then, so that the
\* contribution has magnitude exactly 1.
C15_UnitContributions ==
    pc = "impulse" =>
        /\ \A n \in DOMAIN flocks[idx].neighbors :
               flocks[idx].neighbors[n] =
                   magnitude2(displacement(ModelOf(population, n), Owner))
        /\ \A o \in DOMAIN flocks[idx].obstacles :
               flocks[idx].obstacles[o] =
                   magnitude2(displacement(ModelOf(obstacles, o), Owner))

\* The half of C15 that holds: the obstacles do not move, and the owner has
\* not moved in this tick before its own apply_impulse.
C15_ObstacleContributions ==
    pc = "impulse" =>
        \A o \in DOMAIN flocks[idx].obstacles :
            flocks[idx].obstacles[o] =
                magnitude2(displacement(ModelOf(obstacles, o), Owner))

\* A tick over the empty population builds no flock and leaves it empty.
EmptyTick ==
    /\ BuildFlocks(<<>>, obstacles, Radius, alignment, cohesion, fear, separation) = <<>>
    /\ \A t \in Timesteps :
           system_update(<<>>, obstacles, Radius,
                         alignment, cohesion, fear, separation, t) = <<>>

\* C16: no tick raises an error: apply_impulse asks for no mean over an
\* empty mapping and resizes no vector of zero magnitude, whatever commands
\* came before the tick.
C16_NoError ==
    /\ pc # "raised"
    /\ EmptyTick

\* A tick has ended in which the first flock had neighbours whose mean
\* velocity was the zero vector (a boid added at rest), and in which a
\* flock had boids at its own position, which are no neighbours.
C16_Witness ==
    /\ pc = "render"
    /\ ticks >= 1
    /\ DOMAIN flocks[1].neighbors # {}
    /\ average_velocity(flocks[1], pre) = Zero
    /\ impulsed = Ids(pre)
    /\ \E i \in DOMAIN pre, j \in DOMAIN pre :
           /\ i # j
           /\ pre[i].position = pre[j].position
           /\ pre[j].id \notin DOMAIN flocks[i].neighbors

\* The periodic image of the position of that is nearest to the position
\* near, among the images in the frame and in the eight frames around it.
NearestImage(of, near) ==
    CHOOSE image \in {<<of[1] + i * FrameWidth, of[2] + j * FrameHeight>> :
                         i \in -1..1, j \in -1..1} :
        ImageOfNear(image, of, near)

\* No axis of the two positions is closer across an edge of the frame.
NoWrap(a, b) ==
    /\ 2 * Abs(a[1] - b[1]) <= FrameWidth
    /\ 2 * Abs(a[2] - b[2]) <= FrameHeight

\* C17: the center_of_mass of a Flock is the mean, over its neighbours, of
\* the neighbour's periodic image nearest to the owner, which is the
\* owner's position plus the displacement from the owner to the neighbour;
\* with no neighbour closer across an edge of the frame it is the mean of
\* the neighbours' positions.
C17_CenterOfMass ==
    probe.op = "center_of_mass" =>
        LET owner == probe.models[1]
            ns == Keys(probe.models, probe.flock.neighbors)
        IN  /\ probe.center =
                   mean([i \in DOMAIN ns |->
                            NearestImage(ns[i].position, owner.position)])
            /\ \A i \in DOMAIN ns :
                   NearestImage(ns[i].position, owner.position) =
                       VAdd(owner.position, displacement(owner, ns[i]))
            /\ (\A i \in DOMAIN ns : NoWrap(owner.position, ns[i].position)) =>
                   probe.center = mean([i \in DOMAIN ns |-> ns[i].position])

\* The owner at (0, 0) has the neighbours at (5, 5) and, across both edges
\* of the frame, at (39, 29): the centre of mass is the mean of (5, 5) and
\* (-1, -1).
C17_Witness ==
    /\ probe.op = "center_of_mass"
    /\ probe.models[1].position = <<0, 0>>
    /\ probe.models[2].position = <<5, 5>>
    /\ probe.models[3].position = <<39, 29>>
    /\ DOMAIN probe.flock.neighbors = {2, 3}
    /\ probe.center = <<2, 2>>

\* C18: subtraction broadcasts the scalar to both components in either
\* order of the operands: v - s is (v.x - s, v.y - s) and s - v is
\* (s - v.x, s - v.y).
C18_ScalarBroadcast ==
    probe.op = "subtract" =>
        /\ probe.vector_minus_scalar =
               <<probe.vector[1] - probe.scalar, probe.vector[2] - probe.scalar>>
        /\ probe.scalar_minus_vector =
               <<probe.scalar - probe.vector[1], probe.scalar - probe.vector[2]>>

\* The half of C18 that holds: v - s is (v.x - s, v.y - s).
C18_VectorMinusScalar ==
    probe.op = "subtract" =>
        probe.vector_minus_scalar =
            <<probe.vector[1] - probe.scalar, probe.vector[2] - probe.scalar>>

\* C19: in the Flocks one BoidSystem.update builds, boid b is a key of the
\* neighbour mapping of boid a exactly if a is a key of that of b, the two
\* mappings hold the same distance, and two boids at the same position are
\* in neither's mapping.
C19_NeighborsSymmetric ==
    probe.op = "flocks" =>
        \A i \in DOMAIN probe.flocks, j \in DOMAIN probe.flocks :
            LET a == probe.models[i]
                b == probe.models[j]
                of_a == probe.flocks[i].neighbors
                of_b == probe.flocks[j].neighbors
            IN  /\ probe.flocks[i].boid = a.id
                /\ b.id \in DOMAIN of_a <=> a.id \in DOMAIN of_b
                /\ b.id \in DOMAIN of_a => of_a[b.id] = of_b[a.id]
                /\ a.position = b.position => b.id \notin DOMAIN of_a

\* Two boids at (0, 0) and a third across both edges of the frame, at
\* (39, 29): the third and either of the two are neighbours at the distance
\* sqrt(2), the two are not.
C19_Witness ==
    /\ probe.op = "flocks"
    /\ probe.models[1].position = <<0, 0>>
    /\ probe.models[2].position = <<0, 0>>
    /\ probe.models[3].position = <<39, 29>>
    /\ DOMAIN probe.flocks[1].neighbors = {3}
    /\ DOMAIN probe.flocks[2].neighbors = {3}
    /\ DOMAIN probe.flocks[3].neighbors = {1, 2}
    /\ probe.flocks[1].neighbors[3] = 2
    /\ probe.flocks[3].neighbors[1] = 2

\* C20: whenever App.run renders, self.flocks is empty, before the first
\* tick, or holds one Flock per boid of the population as it is now, in the
\* population's order, and the neighbours and obstacles of every Flock are
\* in the population and in the obstacle list as they are now.
C20_RenderedFlocks ==
    pc = "render" =>
        IF ticks = 0 THEN flocks = <<>>
        ELSE /\ Len(flocks) = Len(population)
             /\ \A i \in DOMAIN flocks :
                    /\ flocks[i].boid = population[i].id
                    /\ DOMAIN flocks[i].neighbors \subseteq Ids(population)
                    /\ DOMAIN flocks[i].obstacles \subseteq Ids(obstacles)

\* The frame after the last tick is about to be rendered, in a run with a
\* reset and an added boid between renderings: there are flocks with
\* neighbours and flocks with obstacles.
C20_Witness ==
    /\ pc = "render"
    /\ ticks = MaxTicks
    /\ resets = 1
    /\ commands = 1
    /\ Len(population) = InitialBoidCount + 1
    /\ \E i \in DOMAIN flocks : DOMAIN flocks[i].neighbors # {}
    /\ \E i \in DOMAIN flocks : DOMAIN flocks[i].obstacles # {}

\* Between a command and the tick of the same pass the flocks are those of
\* the population before the command; nothing is rendered then.
StaleFlocksOutsideRender ==
    /\ pc = "idle"
    /\ ticks >= 1
    /\ Len(flocks) # Len(population)

====
